---- MODULE Spec2Model ----
(***************************************************************************)
(* Model of generate_epg.py (Surf EPG generator, Open-Meteo + Gemini):     *)
(* the wind classifier get_wind_label, the rule chain assess_conditions,   *)
(* the coordinate-deduplicating fetch loop fetch_all_spot_data and the     *)
(* programme builder generate_xml with its commentary cache.               *)
(*                                                                         *)
(* Units.  Heights handed to assess_conditions are in tenths of a metre    *)
(* (4.0 m = 40), periods in seconds, wind speeds in km/h, directions in    *)
(* whole degrees.  Raw provider values are in hundredths of a metre and    *)
(* tenths of a second or km/h; generate_xml rounds them (Round1, Round0).  *)
(* Coordinates are in thousandths of a degree.                             *)
(* An optional value (Python None or a number) is a sequence of length     *)
(* at most one: None is <<>>, the number v is <<v>>.                       *)
(* Ratings stand for the emoji of the source: "surfable" for the wave,     *)
(* "large" for the warning sign, "messy" for the wind, "clean" for the two *)
(* stars, "flat" for the sleeping face.                                    *)
(***************************************************************************)
EXTENDS Integers, Sequences, FiniteSets, TLC

VARIABLES
    \* ---- the run of generate_xml ----
    pc,               \* position of the run
    HAS_AI,           \* module-level flag: the commentary client is connected
    SPOTS_CONFIG,     \* spot id -> [lat, lon, name, offshore_wind]
    days,             \* generate_xml's parameter
    unique_coords,    \* fetch_all_spot_data: coord keys in first-seen order
    fetch_i,          \* fetch_all_spot_data: position in unique_coords
    marine_requests,  \* log of get_openmeteo_marine_data calls: lat, lon, answered
    weather_requests, \* log of get_openmeteo_weather_data calls: lat, lon, answered
    data_cache,       \* coord key -> [hours |-> sequence of hour records]
    cache_writes,     \* log of the keys written into data_cache
    day, block, ch_i, \* loop counters of generate_xml
    last_read,        \* generate_xml: hours_from_start, len(hours_list), hour_idx
                      \* at the last read of hours_list (None before any)
    ai_cache,         \* ai_key -> commentary text
    ai_calls,         \* log of get_ai_commentary invocations: spot, day, block, text
    programmes,       \* the programme elements appended to the feed, in order
    \* ---- direct calls of the pure functions ----
    a_in, a_out,      \* assess_conditions: arguments and returned dict
    w_cfg, w_seen     \* get_wind_label: spot config and degree -> label so far

vars == <<pc, HAS_AI, SPOTS_CONFIG, days, unique_coords, fetch_i,
          marine_requests, weather_requests, data_cache, cache_writes,
          day, block, ch_i, last_read, ai_cache, ai_calls,
          programmes, a_in, a_out, w_cfg, w_seen>>

pipeVars == <<pc, HAS_AI, SPOTS_CONFIG, days, unique_coords, fetch_i,
              marine_requests, weather_requests, data_cache, cache_writes,
              day, block, ch_i, last_read, ai_cache, ai_calls,
              programmes>>

None == <<>>

Some(v) == <<v>>

\* Python's `a or b` on an optional number: None and 0 are both falsy.
Falsy(a) == a = None \/ a = Some(0)

Or(a, b) == IF Falsy(a) THEN b ELSE a

\* `x or 0` followed by float(): the number itself.
OrZero(a) == IF Falsy(a) THEN 0 ELSE a[1]

(***************************************************************************)
(* get_wind_label                                                          *)
(***************************************************************************)
\* The range test used for both sectors: wraps through 0 when start > end.
InRange(d, start, end) ==
    IF start > end THEN d >= start \/ d <= end
    ELSE start <= d /\ d <= end

\* spot_config.get("offshore_wind", (0, 90))
OffshoreRange(spot_config) ==
    IF "offshore_wind" \in DOMAIN spot_config THEN spot_config.offshore_wind
    ELSE <<0, 90>>

get_wind_label(wind_deg, spot_config) ==
    IF wind_deg = None THEN "UNKNOWN"
    ELSE LET d == wind_deg[1]
             start == OffshoreRange(spot_config)[1]
             end == OffshoreRange(spot_config)[2]
             onshore_start == (start + 180) % 360
             onshore_end == (end + 180) % 360
         IN IF InRange(d, start, end) THEN "OFFSHORE"
            ELSE IF InRange(d, onshore_start, onshore_end) THEN "ONSHORE"
            ELSE "CROSS"

\* round(degrees / 22.5) % 16: degrees is a whole number, so degrees/22.5 is
\* never halfway between two integers and rounding is to the nearest.
get_wind_compass(degrees) == ((4 * degrees + 45) \div 90) % 16

(***************************************************************************)
(* assess_conditions: the rules in source order, each taking and returning *)
(* the triple (rating, notes, is_rideable).                                *)
(***************************************************************************)
NoteLarge == "Very large swell - experienced surfers only"
NoteDanger == "Potentially dangerous - consider watching from shore"
NoteMessy == "Onshore wind making it messy"
NoteClean == "Clean conditions with offshore wind"
NoteShort == "Short period - weaker waves"
NoteLong == "Long period - powerful waves"
NoteChop == "Significant wind chop"
NoteFlat == "Essentially flat"

AssessStart == [rating |-> "surfable", notes |-> <<>>, is_rideable |-> TRUE]

SizeRule(a, swell_height) ==
    IF swell_height > 40
    THEN [rating |-> "large",
          notes |-> IF swell_height > 60
                    THEN a.notes \o <<NoteLarge, NoteDanger>>
                    ELSE a.notes \o <<NoteLarge>>,
          is_rideable |-> IF swell_height > 60 THEN FALSE ELSE a.is_rideable]
    ELSE a

\* A wind rule whose offshore branch also declares the session rideable.
WindRule_resets(a, swell_height, wind_speed, wind_label) ==
    IF wind_label = "ONSHORE" /\ wind_speed > 20
    THEN [rating |-> "messy", notes |-> a.notes \o <<NoteMessy>>,
          is_rideable |-> IF wind_speed > 35 THEN FALSE ELSE a.is_rideable]
    ELSE IF wind_label = "OFFSHORE" /\ swell_height >= 10
    THEN [rating |-> "clean", notes |-> a.notes \o <<NoteClean>>,
          is_rideable |-> TRUE]
    ELSE a

WindRule(a, swell_height, wind_speed, wind_label) ==
    IF wind_label = "ONSHORE" /\ wind_speed > 20
    THEN [rating |-> "messy", notes |-> a.notes \o <<NoteMessy>>,
          is_rideable |-> IF wind_speed > 35 THEN FALSE ELSE a.is_rideable]
    ELSE IF wind_label = "OFFSHORE" /\ swell_height >= 10
    THEN [a EXCEPT !.rating = "clean", !.notes = a.notes \o <<NoteClean>>]
    ELSE a

PeriodRule(a, swell_period) ==
    IF swell_period < 8 THEN [a EXCEPT !.notes = a.notes \o <<NoteShort>>]
    ELSE IF swell_period > 14 THEN [a EXCEPT !.notes = a.notes \o <<NoteLong>>]
    ELSE a

ChopRule(a, wind_label, wind_wave_height) ==
    IF wind_wave_height > 10 /\ wind_label # "OFFSHORE"
    THEN [a EXCEPT !.notes = a.notes \o <<NoteChop>>]
    ELSE a

\* A flat rule that only applies while no earlier rule has set the rating.
FlatRule_keeps(a, swell_height) ==
    IF swell_height < 5 /\ a.rating = "surfable"
    THEN [rating |-> "flat", notes |-> a.notes \o <<NoteFlat>>,
          is_rideable |-> FALSE]
    ELSE a

FlatRule(a, swell_height) ==
    IF swell_height < 5
    THEN [rating |-> "flat", notes |-> a.notes \o <<NoteFlat>>,
          is_rideable |-> FALSE]
    ELSE a

assess_conditions(swell_height, swell_period, wind_speed, wind_label, wind_wave_height) ==
    FlatRule(
        ChopRule(
            PeriodRule(
                WindRule(SizeRule(AssessStart, swell_height),
                         swell_height, wind_speed, wind_label),
                swell_period),
            wind_label, wind_wave_height),
        swell_height)

Contains(seq, x) == \E i \in 1..Len(seq) : seq[i] = x

(***************************************************************************)
(* Configuration: SPOTS_CONFIG and CHANNELS.  The run is modelled for the  *)
(* first three spots of the source and four of their channels; the         *)
(* coordinates of the second and third spot range over Coords, so that     *)
(* registries with shared and with distinct coordinates are both covered.  *)
(***************************************************************************)
Spots == <<"ribeira", "supertubos", "molheleste">>

OffshoreWind ==
    [s \in {"ribeira", "supertubos", "molheleste"} |->
        CASE s = "ribeira" -> <<45, 135>>
          [] s = "supertubos" -> <<0, 90>>
          [] s = "molheleste" -> <<45, 135>>]

SpotName ==
    [s \in {"ribeira", "supertubos", "molheleste"} |->
        CASE s = "ribeira" -> "Ribeira d'Ilhas"
          [] s = "supertubos" -> "Supertubos"
          [] s = "molheleste" -> "Molhe Leste"]

CHANNELS ==
    << [id |-> "ericeira-surfline", spot |-> "ribeira",
        name |-> "Surfline Ericeira", poster |-> "ericeira_poster.jpg"],
       [id |-> "ericeira-meo", spot |-> "ribeira",
        name |-> "MEO Ericeira", poster |-> "ericeira_poster.jpg"],
       [id |-> "supertubos-surfline", spot |-> "supertubos",
        name |-> "Surfline Supertubos", poster |-> "supertubos_poster.jpg"],
       [id |-> "molheleste-meo", spot |-> "molheleste",
        name |-> "MEO Molhe Leste", poster |-> "molheleste_poster.jpg"] >>

\* (lat, lon) in thousandths of a degree: Ribeira d'Ilhas, and a point of the
\* same latitude with the longitude of Supertubos.
RibeiraCoord == <<38988, -9419>>

Coords == {<<38988, -9419>>, <<38988, -9363>>}

Registries ==
    { [s \in {"ribeira", "supertubos", "molheleste"} |->
         [lat |-> c[s][1], lon |-> c[s][2], name |-> SpotName[s],
          offshore_wind |-> OffshoreWind[s]]] :
      c \in { f \in [{"ribeira", "supertubos", "molheleste"} -> Coords] :
                 f["ribeira"] = RibeiraCoord } }

(***************************************************************************)
(* String formatting: str() of a number as its sequence of characters, and *)
(* the f-strings that build the coordinate key and the commentary key.     *)
(***************************************************************************)
DigitChar == <<"0", "1", "2", "3", "4", "5", "6", "7", "8", "9">>

RECURSIVE Digits(_)
Digits(n) ==
    IF n < 10 THEN <<DigitChar[n + 1]>>
    ELSE Digits(n \div 10) \o <<DigitChar[(n % 10) + 1]>>

Str(n) == IF n < 0 THEN <<"-">> \o Digits(-n) ELSE Digits(n)

\* A key built from the latitude alone.
coord_key_lat_only(lat, lon) == Str(lat)

\* f"{spot['lat']},{spot['lon']}"
coord_key(lat, lon) == Str(lat) \o <<",">> \o Str(lon)

\* f"{spot_id}-{day}-{block}"
ai_key_of(spot_id, d, b) == <<spot_id, "-">> \o Str(d) \o <<"-">> \o Str(b)

(***************************************************************************)
(* fetch_all_spot_data                                                     *)
(***************************************************************************)
RECURSIVE UniqueFrom(_, _, _)
UniqueFrom(config, i, acc) ==
    IF i > Len(Spots) THEN acc
    ELSE LET spot == config[Spots[i]]
             key == coord_key(spot.lat, spot.lon)
         IN IF \E j \in 1..Len(acc) : acc[j].key = key
            THEN UniqueFrom(config, i + 1, acc)
            ELSE UniqueFrom(config, i + 1,
                     Append(acc, [key |-> key, lat |-> spot.lat,
                                  lon |-> spot.lon, name |-> spot.name]))

UniqueCoords(config) == UniqueFrom(config, 1, <<>>)

\* `arr[i] if i < len(arr) else None`, i counted from 0.
ArrGet(arr, i) == IF i < Len(arr) THEN arr[i + 1] ELSE None

\* The loop over enumerate(times).
CombineHours(marine_hourly, weather_hourly) ==
    [k \in 1..Len(marine_hourly.time) |->
        [time |-> marine_hourly.time[k],
         wave_height |-> ArrGet(marine_hourly.wave_height, k - 1),
         wave_period |-> ArrGet(marine_hourly.wave_period, k - 1),
         wave_direction |-> ArrGet(marine_hourly.wave_direction, k - 1),
         swell_height |-> ArrGet(marine_hourly.swell_wave_height, k - 1),
         swell_period |-> ArrGet(marine_hourly.swell_wave_period, k - 1),
         swell_peak_period |->
             ArrGet(marine_hourly.swell_wave_peak_period, k - 1),
         swell_direction |-> ArrGet(marine_hourly.swell_wave_direction, k - 1),
         wind_wave_height |-> ArrGet(marine_hourly.wind_wave_height, k - 1),
         wind_speed |-> ArrGet(weather_hourly.wind_speed_10m, k - 1),
         wind_direction |-> ArrGet(weather_hourly.wind_direction_10m, k - 1),
         wind_gusts |-> ArrGet(weather_hourly.wind_gusts_10m, k - 1)]]

(***************************************************************************)
(* What the two providers can answer for one coordinate.  A request either *)
(* fails (the getter returns None: ok is FALSE) or returns a response      *)
(* whose hourly arrays have some length; a marine length of 0 stands for a *)
(* response without hourly data.  The content of hour i is fixed per i, so *)
(* that one run meets calm, flat, dangerous and large hours, a null wind   *)
(* direction and (with a short wind array) absent wind entries.            *)
(***************************************************************************)
MaxHours == 19

MarineLens == {0, 1, 7, MaxHours}

WeatherLens == {7, MaxHours}

\* hundredths of a metre; None is a JSON null
SwellHeightAt(i) ==
    IF i < 6 THEN Some(124)
    ELSE IF i < 12 THEN None
    ELSE IF i < 18 THEN Some(702)
    ELSE Some(448)

WaveHeightAt(i) == IF i >= 6 /\ i < 12 THEN Some(31) ELSE Some(150)

\* tenths of a second
PeakPeriodAt(i) == IF i < 6 THEN Some(102) ELSE IF i < 12 THEN None ELSE Some(154)

SwellPeriodAt(i) == IF i < 12 THEN Some(74) ELSE Some(121)

WindWaveHeightAt(i) == IF i < 12 THEN Some(32) ELSE Some(118)

\* tenths of a km/h
WindSpeedAt(i) ==
    IF i < 6 THEN Some(153) ELSE IF i < 12 THEN Some(254) ELSE Some(362)

\* whole degrees
WindDirectionAt(i) ==
    IF i < 6 THEN Some(90)
    ELSE IF i < 12 THEN None
    ELSE IF i < 18 THEN Some(360)
    ELSE Some(225)

WindGustsAt(i) == IF i < 12 THEN Some(301) ELSE Some(508)

MarineHourly(n) ==
    [time |-> [k \in 1..n |-> k - 1],
     wave_height |-> [k \in 1..n |-> WaveHeightAt(k - 1)],
     wave_period |-> [k \in 1..n |-> SwellPeriodAt(k - 1)],
     wave_direction |-> [k \in 1..n |-> Some(290)],
     swell_wave_height |-> [k \in 1..n |-> SwellHeightAt(k - 1)],
     swell_wave_period |-> [k \in 1..n |-> SwellPeriodAt(k - 1)],
     swell_wave_peak_period |-> [k \in 1..n |-> PeakPeriodAt(k - 1)],
     swell_wave_direction |-> [k \in 1..n |-> Some(290)],
     wind_wave_height |-> [k \in 1..n |-> WindWaveHeightAt(k - 1)]]

WeatherHourly(m) ==
    [wind_speed_10m |-> [k \in 1..m |-> WindSpeedAt(k - 1)],
     wind_direction_10m |-> [k \in 1..m |-> WindDirectionAt(k - 1)],
     wind_gusts_10m |-> [k \in 1..m |-> WindGustsAt(k - 1)]]

\* get_openmeteo_marine_data: None on any request error, else r.json()
MarineResults ==
    {[ok |-> FALSE, hourly |-> MarineHourly(0)]}
    \cup {[ok |-> TRUE, hourly |-> MarineHourly(n)] : n \in MarineLens}

\* get_openmeteo_weather_data: None on any request error, else r.json()
WeatherResults ==
    {[ok |-> FALSE, hourly |-> WeatherHourly(0)]}
    \cup {[ok |-> TRUE, hourly |-> WeatherHourly(m)] : m \in WeatherLens}

(***************************************************************************)
(* generate_xml: rounding of the extracted values.  Python's round() goes  *)
(* to the nearest value and, for a tie, to the even one; the provider      *)
(* values above contain no tie.                                            *)
(***************************************************************************)
RoundDiv10(x) ==
    LET q == x \div 10
        r == x % 10
    IN IF r < 5 THEN q
       ELSE IF r > 5 THEN q + 1
       ELSE IF q % 2 = 0 THEN q ELSE q + 1

\* round(float(x), 1) of a height in hundredths: tenths
Round1(x) == RoundDiv10(x)

\* round(float(x), 0) of a value in tenths: units
Round0(x) == RoundDiv10(x)

\* hours_list[idx] succeeds for -len <= idx < len and raises IndexError else.
IndexOk(hours_list, idx) == -Len(hours_list) <= idx /\ idx < Len(hours_list)

PyIndex(hours_list, idx) ==
    IF idx >= 0 THEN hours_list[idx + 1] ELSE hours_list[Len(hours_list) + idx + 1]

Min(a, b) == IF a <= b THEN a ELSE b

\* min(hours_from_start, len(hours_list) - 1)
ClampIndex(hours_from_start, hours_list) == Min(hours_from_start, Len(hours_list) - 1)

(***************************************************************************)
(* generate_xml: one pass of the innermost loop body for a channel.        *)
(***************************************************************************)
MaxDays == 1

MaxAIFail == 1

\* The values extracted from hour h with their fallbacks, then rounded.
Extract(h) ==
    [swell_height |-> Round1(OrZero(Or(h.swell_height, h.wave_height))),
     swell_period |-> Round0(OrZero(Or(h.swell_peak_period, h.swell_period))),
     wind_wave_height |-> Round1(OrZero(h.wind_wave_height)),
     wind_speed |-> Round0(OrZero(h.wind_speed)),
     wind_direction |-> OrZero(h.wind_direction),
     wind_gusts |-> Round0(OrZero(h.wind_gusts))]

\* The label of the hour's raw wind direction, None included.
WindLabelOfHour_raw(h, spot_config) == get_wind_label(h.wind_direction, spot_config)

\* wind_direction = h.get('wind_direction') or 0, then
\* get_wind_label(wind_direction, spot_config)
WindLabelOfHour(h, spot_config) == get_wind_label(Some(OrZero(h.wind_direction)), spot_config)

\* What the commentary client can do when called: return a text (a new one
\* at every call), return an empty text, or raise.  The model lets the first
\* MaxAIFail invocations of a run fall back.
AIReplies(serial, may_fail) ==
    {[kind |-> "text", serial |-> serial]}
    \cup (IF may_fail
          THEN {[kind |-> "silent", serial |-> 0], [kind |-> "error", serial |-> 0]}
          ELSE {})

\* has_ai stands for `HAS_AI and client`, reply for what the client does when
\* called; spot_name and wind_speed only enter the prompt and are left out.
\* A text is the record of the values interpolated into it.
get_ai_commentary(has_ai, swell_height, swell_period, wind_label, assessment, reply) ==
    IF ~has_ai
    THEN IF ~assessment.is_rideable
         THEN [kind |-> "not ideal for surfing right now", swell_height |-> swell_height,
               swell_period |-> 0, wind_label |-> "", serial |-> 0]
         ELSE [kind |-> "conditions", swell_height |-> swell_height,
               swell_period |-> swell_period, wind_label |-> wind_label, serial |-> 0]
    ELSE IF reply.kind = "text"
    THEN [kind |-> "ai", swell_height |-> 0, swell_period |-> 0, wind_label |-> "",
          serial |-> reply.serial]
    ELSE IF reply.kind = "silent"
    THEN [kind |-> "AI silent", swell_height |-> swell_height, swell_period |-> 0,
          wind_label |-> "", serial |-> 0]
    ELSE [kind |-> "AI error", swell_height |-> swell_height, swell_period |-> 0,
          wind_label |-> "", serial |-> 0]

\* A cache that counts a stored fallback text as a miss.
CacheHit_retry(cache, key) == key \in DOMAIN cache /\ cache[key].kind = "ai"

\* `ai_key not in ai_cache`, negated
CacheHit(cache, key) == key \in DOMAIN cache

\* Both getters answered: `if marine_data and weather_data`.
FetchOk_marine_only(marine_data, weather_data) == marine_data.ok

FetchOk(marine_data, weather_data) == marine_data.ok /\ weather_data.ok

\* The loops nested the other way: blocks within a channel.
NextPos_channel_major(d, b, c) ==
    IF b < 3 THEN [day |-> d, block |-> b + 1, ch_i |-> c]
    ELSE IF d + 1 < days THEN [day |-> d + 1, block |-> 0, ch_i |-> c]
    ELSE IF c < Len(CHANNELS) THEN [day |-> 0, block |-> 0, ch_i |-> c + 1]
    ELSE [day |-> days, block |-> 0, ch_i |-> 1]

\* for day in range(days): for block in range(4): for ch in CHANNELS
NextPos(d, b, c) ==
    IF c < Len(CHANNELS) THEN [day |-> d, block |-> b, ch_i |-> c + 1]
    ELSE IF b < 3 THEN [day |-> d, block |-> b + 1, ch_i |-> 1]
    ELSE [day |-> d + 1, block |-> 0, ch_i |-> 1]

Ch == CHANNELS[ch_i]

CurKey == coord_key(SPOTS_CONFIG[Ch.spot].lat, SPOTS_CONFIG[Ch.spot].lon)

HoursFromStart == day * 24 + block * 6

Advance ==
    LET n == NextPos(day, block, ch_i)
    IN /\ day' = n.day
       /\ block' = n.block
       /\ ch_i' = n.ch_i
       /\ pc' = IF n.day >= days THEN "write" ELSE "build"

Programme(title, desc) ==
    [channel |-> Ch.id, start |-> HoursFromStart, stop |-> HoursFromStart + 6,
     title |-> title, desc |-> desc, icon |-> Ch.poster]

NoData == [text |-> "No data available"]

(***************************************************************************)
(* The run: generate_xml calls fetch_all_spot_data, returns early when the *)
(* cache is empty, else walks days x blocks x CHANNELS and writes the feed.*)
(***************************************************************************)
pureIdle ==
    /\ a_in = None
    /\ a_out = None
    /\ w_cfg = None
    /\ w_seen = <<>>

Init ==
    /\ pc = "start"
    /\ HAS_AI \in BOOLEAN
    /\ SPOTS_CONFIG \in Registries
    /\ days \in 1..MaxDays
    /\ unique_coords = <<>>
    /\ fetch_i = 1
    /\ marine_requests = <<>>
    /\ weather_requests = <<>>
    /\ data_cache = <<>>
    /\ cache_writes = <<>>
    /\ day = 0
    /\ block = 0
    /\ ch_i = 1
    /\ last_read = None
    /\ ai_cache = <<>>
    /\ ai_calls = <<>>
    /\ programmes = <<>>
    /\ pureIdle

\* fetch_all_spot_data, up to the loop: collect the unique coordinates.
FetchStart ==
    /\ pc = "start"
    /\ unique_coords' = UniqueCoords(SPOTS_CONFIG)
    /\ fetch_i' = 1
    /\ pc' = "fetch"
    /\ UNCHANGED <<HAS_AI, SPOTS_CONFIG, days, marine_requests, weather_requests,
                   data_cache, cache_writes, day, block, ch_i, last_read,
                   ai_cache, ai_calls, programmes, a_in, a_out,
                   w_cfg, w_seen>>

\* One pass of the loop over unique_coords: both requests, then the combined
\* hours are stored, or nothing is when either getter returned None.
FetchCoord ==
    /\ pc = "fetch"
    /\ fetch_i <= Len(unique_coords)
    /\ LET c == unique_coords[fetch_i]
       IN \E marine_data \in MarineResults, weather_data \in WeatherResults :
            /\ marine_requests' = Append(marine_requests,
                   [lat |-> c.lat, lon |-> c.lon, ok |-> marine_data.ok])
            /\ weather_requests' = Append(weather_requests,
                   [lat |-> c.lat, lon |-> c.lon, ok |-> weather_data.ok])
            /\ IF FetchOk(marine_data, weather_data)
               THEN /\ data_cache' = [k \in DOMAIN data_cache \cup {c.key} |->
                          IF k = c.key
                          THEN [hours |-> CombineHours(marine_data.hourly,
                                                       weather_data.hourly)]
                          ELSE data_cache[k]]
                    /\ cache_writes' = Append(cache_writes, c.key)
               ELSE UNCHANGED <<data_cache, cache_writes>>
    /\ fetch_i' = fetch_i + 1
    /\ UNCHANGED <<pc, HAS_AI, SPOTS_CONFIG, days, unique_coords, day, block,
                   ch_i, last_read, ai_cache, ai_calls, programmes,
                   a_in, a_out, w_cfg, w_seen>>

\* fetch_all_spot_data returned an empty cache: "No data fetched. Exiting."
ExitNoData ==
    /\ pc = "fetch"
    /\ fetch_i > Len(unique_coords)
    /\ DOMAIN data_cache = {}
    /\ pc' = "exit"
    /\ UNCHANGED <<HAS_AI, SPOTS_CONFIG, days, unique_coords, fetch_i,
                   marine_requests, weather_requests, data_cache, cache_writes,
                   day, block, ch_i, last_read, ai_cache, ai_calls,
                   programmes, a_in, a_out, w_cfg, w_seen>>

\* The cache is not empty: channel headers, then the programme loops start.
BuildStart ==
    /\ pc = "fetch"
    /\ fetch_i > Len(unique_coords)
    /\ DOMAIN data_cache # {}
    /\ pc' = "build"
    /\ day' = 0
    /\ block' = 0
    /\ ch_i' = 1
    /\ ai_cache' = <<>>
    /\ UNCHANGED <<HAS_AI, SPOTS_CONFIG, days, unique_coords, fetch_i,
                   marine_requests, weather_requests, data_cache, cache_writes,
                   last_read, ai_calls, programmes, a_in, a_out,
                   w_cfg, w_seen>>

\* The channel's coordinate has no cache entry: title is the channel name,
\* desc is "No data available".
BuildNoData ==
    /\ pc = "build"
    /\ CurKey \notin DOMAIN data_cache
    /\ programmes' = Append(programmes, Programme([text |-> Ch.name], NoData))
    /\ Advance
    /\ UNCHANGED <<HAS_AI, SPOTS_CONFIG, days, unique_coords, fetch_i,
                   marine_requests, weather_requests, data_cache, cache_writes,
                   last_read, ai_cache, ai_calls, a_in, a_out,
                   w_cfg, w_seen>>

\* hours_list[hour_idx] raises IndexError, outside the try block: the run
\* ends with the exception.
BuildIndexError ==
    /\ pc = "build"
    /\ CurKey \in DOMAIN data_cache
    /\ LET hours_list == data_cache[CurKey].hours
           hour_idx == ClampIndex(HoursFromStart, hours_list)
       IN /\ ~IndexOk(hours_list, hour_idx)
          /\ last_read' = Some([hours_from_start |-> HoursFromStart,
                                length |-> Len(hours_list), hour_idx |-> hour_idx])
    /\ pc' = "crashed"
    /\ UNCHANGED <<HAS_AI, SPOTS_CONFIG, days, unique_coords, fetch_i,
                   marine_requests, weather_requests, data_cache, cache_writes,
                   day, block, ch_i, ai_cache, ai_calls, programmes,
                   a_in, a_out, w_cfg, w_seen>>

\* The hour is read, assessed, commented (through ai_cache) and emitted.
BuildAssessed ==
    /\ pc = "build"
    /\ CurKey \in DOMAIN data_cache
    /\ LET hours_list == data_cache[CurKey].hours
           hour_idx == ClampIndex(HoursFromStart, hours_list)
       IN /\ IndexOk(hours_list, hour_idx)
          /\ last_read' = Some([hours_from_start |-> HoursFromStart,
                                length |-> Len(hours_list), hour_idx |-> hour_idx])
          /\ LET v == Extract(PyIndex(hours_list, hour_idx))
                 spot_config == SPOTS_CONFIG[Ch.spot]
                 wind_label == WindLabelOfHour(PyIndex(hours_list, hour_idx),
                                               spot_config)
                 wind_compass == get_wind_compass(v.wind_direction)
                 assessment == assess_conditions(v.swell_height, v.swell_period,
                                   v.wind_speed, wind_label, v.wind_wave_height)
                 ai_key == ai_key_of(Ch.spot, day, block)
                 title == [rating |-> assessment.rating,
                           swell_height |-> v.swell_height,
                           swell_period |-> v.swell_period,
                           wind_label |-> wind_label]
             IN IF CacheHit(ai_cache, ai_key)
                THEN /\ programmes' = Append(programmes, Programme(title,
                            [ai_text |-> ai_cache[ai_key], values |-> v,
                             wind_compass |-> wind_compass,
                             wind_label |-> wind_label,
                             notes |-> assessment.notes]))
                     /\ UNCHANGED <<ai_cache, ai_calls>>
                ELSE \E reply \in AIReplies(Len(ai_calls) + 1,
                                            HAS_AI /\ Len(ai_calls) < MaxAIFail) :
                        LET ai_text == get_ai_commentary(HAS_AI, v.swell_height,
                                           v.swell_period, wind_label,
                                           assessment, reply)
                        IN /\ ai_cache' = [k \in DOMAIN ai_cache \cup {ai_key} |->
                                  IF k = ai_key THEN ai_text ELSE ai_cache[k]]
                           /\ ai_calls' = Append(ai_calls,
                                  [spot |-> Ch.spot, day |-> day,
                                   block |-> block, text |-> ai_text])
                           /\ programmes' = Append(programmes, Programme(title,
                                  [ai_text |-> ai_text, values |-> v,
                                   wind_compass |-> wind_compass,
                                   wind_label |-> wind_label,
                                   notes |-> assessment.notes]))
    /\ Advance
    /\ UNCHANGED <<HAS_AI, SPOTS_CONFIG, days, unique_coords, fetch_i,
                   marine_requests, weather_requests, data_cache, cache_writes,
                   a_in, a_out, w_cfg, w_seen>>

\* tree.write(output_file): the run is complete.
WriteXML ==
    /\ pc = "write"
    /\ pc' = "done"
    /\ UNCHANGED <<HAS_AI, SPOTS_CONFIG, days, unique_coords, fetch_i,
                   marine_requests, weather_requests, data_cache, cache_writes,
                   day, block, ch_i, last_read, ai_cache, ai_calls,
                   programmes, a_in, a_out, w_cfg, w_seen>>

Next ==
    \/ FetchStart
    \/ FetchCoord
    \/ ExitNoData
    \/ BuildStart
    \/ BuildNoData
    \/ BuildIndexError
    \/ BuildAssessed
    \/ WriteXML

Spec == Init /\ [][Next]_vars

(***************************************************************************)
(* Direct calls of assess_conditions: the arguments are drawn from values  *)
(* on both sides of every threshold of the rules.                          *)
(***************************************************************************)
pipeIdle ==
    /\ pc = "idle"
    /\ HAS_AI = FALSE
    /\ SPOTS_CONFIG = <<>>
    /\ days = 1
    /\ unique_coords = <<>>
    /\ fetch_i = 1
    /\ marine_requests = <<>>
    /\ weather_requests = <<>>
    /\ data_cache = <<>>
    /\ cache_writes = <<>>
    /\ day = 0
    /\ block = 0
    /\ ch_i = 1
    /\ last_read = None
    /\ ai_cache = <<>>
    /\ ai_calls = <<>>
    /\ programmes = <<>>

SwellHeights == {0, 4, 5, 9, 10, 40, 41, 60, 61, 70}

SwellPeriods == {0, 7, 8, 14, 15}

WindSpeeds == {0, 20, 21, 35, 36}

WindLabels == {"OFFSHORE", "ONSHORE", "CROSS", "UNKNOWN"}

WindWaveHeights == {0, 10, 11}

AssessInputs ==
    [swell_height : SwellHeights, swell_period : SwellPeriods,
     wind_speed : WindSpeeds, wind_label : WindLabels,
     wind_wave_height : WindWaveHeights]

InitAssess ==
    /\ pipeIdle
    /\ a_in \in {Some(x) : x \in AssessInputs}
    /\ a_out = None
    /\ w_cfg = None
    /\ w_seen = <<>>

AssessCall ==
    /\ a_in # None
    /\ a_out = None
    /\ a_out' = Some(assess_conditions(a_in[1].swell_height, a_in[1].swell_period,
                         a_in[1].wind_speed, a_in[1].wind_label,
                         a_in[1].wind_wave_height))
    /\ UNCHANGED <<pipeVars, a_in, w_cfg, w_seen>>

NextAssess == AssessCall

SpecAssess == InitAssess /\ [][NextAssess]_vars

(***************************************************************************)
(* Direct calls of get_wind_label for one spot configuration: w_seen       *)
(* collects the label returned for each direction asked so far.            *)
(***************************************************************************)
RangeEnds == {0, 45, 90, 100, 135, 180, 200, 225, 270, 315}

WindConfigs ==
    {[offshore_wind |-> <<s, e>>] : s \in RangeEnds, e \in RangeEnds}
    \cup {[facing |-> 290]}

WindDegrees == {None, Some(0), Some(90), Some(180), Some(270), Some(360)}

InitWind ==
    /\ pipeIdle
    /\ a_in = None
    /\ a_out = None
    /\ w_cfg \in {Some(c) : c \in WindConfigs}
    /\ w_seen = <<>>

ClassifyWind ==
    /\ w_cfg # None
    /\ \E wind_deg \in WindDegrees \ DOMAIN w_seen :
          w_seen' = [d \in DOMAIN w_seen \cup {wind_deg} |->
                        IF d = wind_deg THEN get_wind_label(wind_deg, w_cfg[1])
                        ELSE w_seen[d]]
    /\ UNCHANGED <<pipeVars, a_in, a_out, w_cfg>>

NextWind == ClassifyWind

SpecWind == InitWind /\ [][NextWind]_vars

(***************************************************************************)
(* Claims                                                                  *)
(***************************************************************************)

\* C1 (danger dominance): whenever assess_conditions is called with a swell
\* height above 6.0 m, whatever the period, wind speed, wind label and
\* wind-wave height, the returned is_rideable is false and the notes hold the
\* "Potentially dangerous" note.
C1_DangerDominance ==
    (a_out # None /\ a_in[1].swell_height > 60)
        => (~a_out[1].is_rideable /\ Contains(a_out[1].notes, NoteDanger))

\* C1 witness: a call with swell above 6.0 m in which the offshore wind rule
\* fired after the danger rule (the rating became "clean").
C1_Witness ==
    /\ a_out # None
    /\ a_in[1].swell_height > 60
    /\ a_in[1].wind_label = "OFFSHORE"
    /\ a_out[1].rating = "clean"
    /\ ~a_out[1].is_rideable

\* C2 (flat dominance): whenever assess_conditions is called with a swell
\* height below 0.5 m, the returned rating is the flat one and is_rideable is
\* false, whatever the other arguments.
C2_FlatDominance ==
    (a_out # None /\ a_in[1].swell_height < 5)
        => (a_out[1].rating = "flat" /\ ~a_out[1].is_rideable)

\* C2 witness: a flat call in which the onshore wind rule had set the rating
\* to "messy" (its note is there) before the flat rule overwrote it.
C2_Witness ==
    /\ a_out # None
    /\ a_in[1].swell_height < 5
    /\ Contains(a_out[1].notes, NoteMessy)
    /\ a_out[1].rating = "flat"

\* C3 (circularity), as claimed: for every spot configuration, the label
\* get_wind_label returns for 360 degrees is the label it returns for 0.
C3_Circular ==
    (Some(0) \in DOMAIN w_seen /\ Some(360) \in DOMAIN w_seen)
        => w_seen[Some(0)] = w_seen[Some(360)]

(***************************************************************************)
(* Vocabulary of the claims about a run.                                   *)
(***************************************************************************)
SpotCoords == {<<SPOTS_CONFIG[s].lat, SPOTS_CONFIG[s].lon>> : s \in DOMAIN SPOTS_CONFIG}

FetchDone == pc \in {"build", "write", "done", "exit", "crashed"}

NoDup(seq) == \A i, j \in 1..Len(seq) : seq[i] = seq[j] => i = j

LatLon(r) == <<r.lat, r.lon>>

\* the coordinates requested, in request order
Requested(log) == [i \in 1..Len(log) |-> LatLon(log[i])]

\* the (spot, day, block) of the commentary invocations, in call order
CallKeys == [i \in 1..Len(ai_calls) |->
                <<ai_calls[i].spot, ai_calls[i].day, ai_calls[i].block>>]

ChIndex(id) == CHOOSE i \in 1..Len(CHANNELS) : CHANNELS[i].id = id

\* the channels whose spot lies at (lat, lon)
ChannelsAt(lat, lon) ==
    {i \in 1..Len(CHANNELS) :
        <<SPOTS_CONFIG[CHANNELS[i].spot].lat, SPOTS_CONFIG[CHANNELS[i].spot].lon>>
            = <<lat, lon>>}

Assessed(p) == "ai_text" \in DOMAIN p.desc

\* the programme entries emitted for channel i
EntriesOf(i) == {k \in 1..Len(programmes) : programmes[k].channel = CHANNELS[i].id}

Starts == {d * 24 + b * 6 : d \in 0..(days - 1), b \in 0..3}

\* channel i has an entry in every block, all of them "No data available"
AllNoData(i) ==
    /\ \A k \in EntriesOf(i) : programmes[k].desc = NoData
    /\ \A t \in Starts : \E k \in EntriesOf(i) : programmes[k].start = t

\* channel i has an entry in every block
AllBlocks(i) == \A t \in Starts : \E k \in EntriesOf(i) : programmes[k].start = t

\* the coordinates one of whose two requests went unanswered
FailedCoords ==
    {<<marine_requests[i].lat, marine_requests[i].lon>> : i \in
        {j \in 1..Len(marine_requests) :
            j <= Len(weather_requests)
            /\ ~(marine_requests[j].ok /\ weather_requests[j].ok)}}

\* the coordinates exactly one of whose two requests went unanswered
HalfFailed ==
    {j \in 1..Len(marine_requests) :
        j <= Len(weather_requests)
        /\ marine_requests[j].ok # weather_requests[j].ok}

\* C4 (commentary cache, at most once): in a run, get_ai_commentary is
\* invoked at most once for a (spot, day, block), also after an invocation
\* that fell back; the text stored under its key stays the text that one
\* invocation returned; and every assessed programme entry of that spot, day
\* and block carries the stored text.
C4_CacheAtMostOnce ==
    /\ NoDup(CallKeys)
    /\ \A i \in 1..Len(ai_calls) :
          /\ ai_key_of(ai_calls[i].spot, ai_calls[i].day, ai_calls[i].block)
                \in DOMAIN ai_cache
          /\ ai_cache[ai_key_of(ai_calls[i].spot, ai_calls[i].day,
                                ai_calls[i].block)] = ai_calls[i].text
    /\ \A k \in 1..Len(programmes) :
          Assessed(programmes[k]) =>
             \E i \in 1..Len(ai_calls) :
                /\ ai_calls[i].spot = CHANNELS[ChIndex(programmes[k].channel)].spot
                /\ ai_calls[i].day * 24 + ai_calls[i].block * 6 = programmes[k].start
                /\ programmes[k].desc.ai_text = ai_calls[i].text

\* C4 witness: an invocation fell back with "AI error", and two channels of
\* that spot carry its text for the same block.
C4_Witness ==
    \E i \in 1..Len(ai_calls) : \E k, l \in 1..Len(programmes) :
        /\ ai_calls[i].text.kind = "AI error"
        /\ k # l
        /\ programmes[k].start = programmes[l].start
        /\ Assessed(programmes[k]) /\ Assessed(programmes[l])
        /\ CHANNELS[ChIndex(programmes[k].channel)].spot = ai_calls[i].spot
        /\ CHANNELS[ChIndex(programmes[l].channel)].spot = ai_calls[i].spot
        /\ programmes[k].start = ai_calls[i].day * 24 + ai_calls[i].block * 6
        /\ programmes[k].desc.ai_text = ai_calls[i].text
        /\ programmes[l].desc.ai_text = ai_calls[i].text

\* C5 (coordinate deduplication): fetch_all_spot_data requests no coordinate
\* twice from either provider, writes no data_cache key twice, and once its
\* loop is over it has made exactly one marine and one wind request for each
\* of the K distinct (lat, lon) pairs of the registry, however many spots
\* there are.
C5_FetchPerCoordinate ==
    /\ NoDup(Requested(marine_requests))
    /\ NoDup(Requested(weather_requests))
    /\ NoDup(cache_writes)
    /\ Len(marine_requests) = Len(weather_requests)
    /\ FetchDone =>
          /\ Len(marine_requests) = Cardinality(SpotCoords)
          /\ {LatLon(marine_requests[i]) : i \in 1..Len(marine_requests)} = SpotCoords
          /\ {LatLon(weather_requests[i]) : i \in 1..Len(weather_requests)} = SpotCoords

\* C5 witness: the fetch loop is over for a registry of three spots at two
\* distinct coordinates, both of them stored.
C5_Witness ==
    /\ FetchDone
    /\ Cardinality(DOMAIN SPOTS_CONFIG) = 3
    /\ Cardinality(SpotCoords) = 2
    /\ Len(marine_requests) = 2
    /\ Len(cache_writes) = 2

\* C6 (empty-sequence sentinel), as claimed: when the stored sequence of a
\* coordinate is empty, the run does not fail, and at its end every channel
\* of that coordinate has a "No data available" entry in every block.
C6_EmptySentinel ==
    \A c \in {u \in SpotCoords : coord_key(u[1], u[2]) \in DOMAIN data_cache} :
        data_cache[coord_key(c[1], c[2])].hours = <<>> =>
            /\ pc # "crashed"
            /\ pc = "done" => \A i \in ChannelsAt(c[1], c[2]) : AllNoData(i)

\* C7, as claimed: a coordinate with exactly one of its two series absent
\* still gets its hourly sequence, and its channels get assessed entries,
\* not "No data available" ones.
C7_OneAbsentTolerated ==
    \A j \in HalfFailed :
        /\ coord_key(marine_requests[j].lat, marine_requests[j].lon)
              \in DOMAIN data_cache
        /\ \A i \in ChannelsAt(marine_requests[j].lat, marine_requests[j].lon) :
              \A k \in EntriesOf(i) : Assessed(programmes[k])

\* C7, amended: a coordinate with exactly one of its two requests unanswered
\* gets no entry in data_cache, the fetch loop still goes through every
\* unique coordinate, and every programme entry emitted for a channel of
\* that coordinate is the "No data available" entry.
C7_OneAbsentNoData ==
    /\ \A j \in HalfFailed :
          /\ coord_key(marine_requests[j].lat, marine_requests[j].lon)
                \notin DOMAIN data_cache
          /\ \A i \in ChannelsAt(marine_requests[j].lat, marine_requests[j].lon) :
                \A k \in EntriesOf(i) : programmes[k].desc = NoData
    /\ FetchDone => Len(marine_requests) = Len(unique_coords)

\* C7 witness: the run is complete, the wind request of one coordinate went
\* unanswered while its marine request was answered, its channel has a
\* "No data available" entry, and another channel has an assessed entry.
C7_Witness ==
    /\ pc = "done"
    /\ \E j \in HalfFailed :
          /\ marine_requests[j].ok
          /\ \E i \in ChannelsAt(marine_requests[j].lat, marine_requests[j].lon) :
                \E k \in EntriesOf(i) : programmes[k].desc = NoData
    /\ \E k \in 1..Len(programmes) : Assessed(programmes[k])

\* C8 (partial failure is isolated), as claimed: when the fetch failed for a
\* coordinate and succeeded for another, the run does not fail, and at its
\* end there are len(CHANNELS) x days x 4 entries, "No data available" in
\* every block for the channels of the failed coordinate and an entry in
\* every block for every other channel.
C8_PartialFailureIsolated ==
    (FetchDone /\ FailedCoords # {} /\ DOMAIN data_cache # {}) =>
        /\ pc \notin {"crashed", "exit"}
        /\ pc = "done" =>
              /\ Len(programmes) = Len(CHANNELS) * days * 4
              /\ \A c \in FailedCoords : \A i \in ChannelsAt(c[1], c[2]) : AllNoData(i)
              /\ \A i \in 1..Len(CHANNELS) : AllBlocks(i)

\* C9, as claimed: the emitted sequence is channel-major, time-minor: an
\* earlier entry is of an earlier channel of CHANNELS, or of the same channel
\* and an earlier start.
C9_ChannelMajor ==
    \A k, l \in 1..Len(programmes) :
        k < l =>
            \/ ChIndex(programmes[k].channel) < ChIndex(programmes[l].channel)
            \/ /\ programmes[k].channel = programmes[l].channel
               /\ programmes[k].start < programmes[l].start

\* C9, amended: the emitted sequence is time-major, channel-minor: an
\* earlier entry has an earlier start, or the same start and an earlier
\* channel of CHANNELS (so no (channel, block) pair is emitted twice); and a
\* run that completes has emitted exactly one entry for every pair.
C9_TimeMajor ==
    /\ \A k, l \in 1..Len(programmes) :
          k < l =>
              \/ programmes[k].start < programmes[l].start
              \/ /\ programmes[k].start = programmes[l].start
                 /\ ChIndex(programmes[k].channel) < ChIndex(programmes[l].channel)
    /\ pc = "done" =>
          /\ Len(programmes) = Len(CHANNELS) * days * 4
          /\ \A i \in 1..Len(CHANNELS) : AllBlocks(i)

\* C9 witness: a complete run, with an entry of the first channel for the
\* second block emitted after the entry of the last channel for the first.
C9_Witness ==
    /\ pc = "done"
    /\ Len(programmes) = Len(CHANNELS) * days * 4
    /\ programmes[Len(CHANNELS)].channel = CHANNELS[Len(CHANNELS)].id
    /\ programmes[Len(CHANNELS)].start = 0
    /\ programmes[Len(CHANNELS) + 1].channel = CHANNELS[1].id
    /\ programmes[Len(CHANNELS) + 1].start = 6

\* C10 (clamping), as claimed: at every read of a forecast sequence of
\* length L for hours_from_start, the index used is min(hours_from_start,
\* L - 1), lies within 0..L-1, and the read raises no index error.
C10_Clamped ==
    last_read # None =>
        /\ last_read[1].hour_idx = Min(last_read[1].hours_from_start,
                                       last_read[1].length - 1)
        /\ 0 <= last_read[1].hour_idx
        /\ last_read[1].hour_idx <= last_read[1].length - 1
        /\ pc # "crashed"

\* C11 (danger dominates the final rating), as claimed: whenever
\* assess_conditions is called with a swell height above 6.0 m, the returned
\* rating is the size tier set by the danger rule, never the "messy" or the
\* "clean" tier of the wind rule, whatever the wind label and wind speed.
C11_DangerRating ==
    (a_out # None /\ a_in[1].swell_height > 60)
        => (a_out[1].rating = "large" /\ a_out[1].rating \notin {"messy", "clean"})

\* the hour generate_xml read for the assessed programme entry p
HourOf(p) ==
    LET cfg == SPOTS_CONFIG[CHANNELS[ChIndex(p.channel)].spot]
        hours_list == data_cache[coord_key(cfg.lat, cfg.lon)].hours
    IN PyIndex(hours_list, ClampIndex(p.start, hours_list))

\* C12 (a missing wind direction counts as 0 degrees): no programme entry
\* carries the label UNKNOWN, in its title or in its description; an entry
\* whose forecast hour has a null or absent wind direction carries the label
\* its spot gives to a wind from 0 degrees, which is OFFSHORE when the spot's
\* offshore range contains 0, as (0, 90) does.
C12_NullWindIsZero ==
    \A k \in 1..Len(programmes) :
        Assessed(programmes[k]) =>
            LET p == programmes[k]
                cfg == SPOTS_CONFIG[CHANNELS[ChIndex(p.channel)].spot]
            IN /\ p.title.wind_label # "UNKNOWN"
               /\ p.desc.wind_label = p.title.wind_label
               /\ HourOf(p).wind_direction = None =>
                     /\ p.desc.values.wind_direction = 0
                     /\ p.title.wind_label = get_wind_label(Some(0), cfg)
                     /\ (cfg.offshore_wind[1] <= 0 /\ 0 <= cfg.offshore_wind[2])
                           => p.title.wind_label = "OFFSHORE"

\* C12 witness: an entry of a spot with offshore range (0, 90) whose hour has
\* no wind entry at all (the wind arrays are shorter than the time axis) is
\* labelled OFFSHORE, and an entry of a spot with range (45, 135) whose hour
\* has a wind speed but a null direction is labelled CROSS.
C12_Witness ==
    /\ \E k \in 1..Len(programmes) :
          /\ Assessed(programmes[k])
          /\ SPOTS_CONFIG[CHANNELS[ChIndex(programmes[k].channel)].spot].offshore_wind
                = <<0, 90>>
          /\ HourOf(programmes[k]).wind_direction = None
          /\ HourOf(programmes[k]).wind_speed = None
          /\ programmes[k].title.wind_label = "OFFSHORE"
    /\ \E k \in 1..Len(programmes) :
          /\ Assessed(programmes[k])
          /\ SPOTS_CONFIG[CHANNELS[ChIndex(programmes[k].channel)].spot].offshore_wind
                = <<45, 135>>
          /\ HourOf(programmes[k]).wind_direction = None
          /\ HourOf(programmes[k]).wind_speed # None
          /\ programmes[k].title.wind_label = "CROSS"

====
